---- MODULE Spec2Model ----
(***************************************************************************)
(* A model of int2en.py: the scale vocabularies, the suffix morphology,    *)
(* the digit tables and the recursive renderer int2en.                     *)
(*                                                                         *)
(* Python integers are unbounded, and the vocabulary reaches 10^75, so an  *)
(* integer is modelled as a record [neg, mag] whose magnitude is its       *)
(* decimal expansion: a sequence of digits, most significant first,        *)
(* without leading zeros (zero is <<0>>).  Python strings are TLA+ strings.*)
(***************************************************************************)
EXTENDS Integers, Sequences, FiniteSets, TLC

base == 10

Cardinal == 0
Ordinal == 1

(***************************************************************************)
(* Arithmetic on decimal expansions.                                       *)
(***************************************************************************)
Zero == <<0>>

RECURSIVE Norm(_)
Norm(d) ==
    IF Len(d) > 1 /\ Head(d) = 0 THEN Norm(Tail(d))
    ELSE IF Len(d) = 0 THEN Zero ELSE d

\* 10 ** e
Pow10(e) == <<1>> \o [j \in 1..e |-> 0]

RECURSIVE LexLeq(_, _)
LexLeq(a, b) ==
    IF Len(a) = 0 THEN TRUE
    ELSE IF Head(a) # Head(b) THEN Head(a) < Head(b)
    ELSE LexLeq(Tail(a), Tail(b))

\* a <= b on magnitudes
Leq(a, b) == Len(a) < Len(b) \/ (Len(a) = Len(b) /\ LexLeq(a, b))

Lt(a, b) == Leq(a, b) /\ a # b

\* divmod(a, p) for a >= 0 and p a power of ten (every divisor the program
\* uses is `base` or a vocabulary key, all of them powers of ten)
DivMod(a, p) ==
    LET e == Len(p) - 1
        n == Len(a)
    IN  IF n <= e THEN [q |-> Zero, r |-> a]
        ELSE [q |-> SubSeq(a, 1, n - e), r |-> Norm(SubSeq(a, n - e + 1, n))]

\* the value of a magnitude below `base`
Small(d) == d[1]

\* the value of a magnitude used as a table key
RECURSIVE ToKey(_)
ToKey(d) ==
    IF Len(d) = 0 THEN 0 ELSE ToKey(SubSeq(d, 1, Len(d) - 1)) * base + d[Len(d)]

\* the magnitude of a small natural number
RECURSIVE Digits(_)
Digits(n) == IF n < base THEN <<n>> ELSE Digits(n \div base) \o <<n % base>>

(***************************************************************************)
(* Python dictionaries are functions; d1 | d2 keeps d2's value on a clash. *)
(***************************************************************************)
Merge(d1, d2) ==
    [k \in DOMAIN d1 \cup DOMAIN d2 |-> IF k \in DOMAIN d2 THEN d2[k] ELSE d1[k]]

(***************************************************************************)
(* class Scale and its subclasses                                          *)
(***************************************************************************)
grouping == 3

Scale_vocabulary == (Pow10(2) :> "hundred") @@ (Pow10(3) :> "thousand")

prefixes ==
    [n \in 1..12 |->
        CASE n = 1 -> "m"
          [] n = 2 -> "b"
          [] n = 3 -> "tr"
          [] n = 4 -> "quadr"
          [] n = 5 -> "quint"
          [] n = 6 -> "sext"
          [] n = 7 -> "sept"
          [] n = 8 -> "oct"
          [] n = 9 -> "non"
          [] n = 10 -> "dec"
          [] n = 11 -> "undec"
          [] n = 12 -> "duodec"]

\* { 10 ** exps[n]: prefix + suffix for n, prefix in prefixes.items() }: a key
\* produced twice keeps the value of the last n that produced it
Comprehension(exps, suffix) ==
    LET keys == { Pow10(exps[n]) : n \in DOMAIN prefixes }
        last(k) == CHOOSE n \in DOMAIN prefixes :
                      /\ Pow10(exps[n]) = k
                      /\ \A m \in DOMAIN prefixes : Pow10(exps[m]) = k => m <= n
    IN  [k \in keys |-> prefixes[last(k)] \o suffix]

ShortScale_illion(n) == grouping * n + grouping

ShortScale_vocabulary ==
    Merge(Scale_vocabulary,
          Comprehension([n \in DOMAIN prefixes |-> ShortScale_illion(n)], "illion"))

LongScale_illion(n) == 2 * grouping * n

\* illiard with the exponent of illion
LongScale_illiardAsIllion(n) == 2 * grouping * n

LongScale_illiard(n) == 2 * grouping * n + grouping

LongScale_vocabulary ==
    Merge(Merge(Scale_vocabulary,
                Comprehension([n \in DOMAIN prefixes |-> LongScale_illion(n)], "illion")),
          Comprehension([n \in DOMAIN prefixes |-> LongScale_illiard(n)], "illiard"))

Scales == {"ShortScale", "LongScale"}

vocabulary(scale) ==
    IF scale = "ShortScale" THEN ShortScale_vocabulary ELSE LongScale_vocabulary

\* the vocabulary items no greater than x
relevant_vocabulary(scale, x) ==
    LET v == vocabulary(scale)
    IN  [k \in { p \in DOMAIN v : Leq(p, x) } |-> v[k]]

(***************************************************************************)
(* Suffixes: root + suffix                                                 *)
(***************************************************************************)
endswith(s, suf) ==
    Len(s) >= Len(suf) /\ SubSeq(s, Len(s) - Len(suf) + 1, Len(s)) = suf

removesuffix(s, suf) ==
    IF endswith(s, suf) THEN SubSeq(s, 1, Len(s) - Len(suf)) ELSE s

Suffix_radd(root, self) == root \o self

st(root) == Suffix_radd(root, "st")

th(root) ==
    IF endswith(root, "ve") THEN removesuffix(root, "ve") \o "f" \o "th"
    ELSE IF endswith(root, "ne") THEN removesuffix(root, "e") \o "th"
    ELSE IF endswith(root, "ght") THEN removesuffix(root, "t") \o "th"
    ELSE IF endswith(root, "y") THEN removesuffix(root, "y") \o "ie" \o "th"
    ELSE Suffix_radd(root, "th")

\* teen without the rule for a root ending in 'ght'
teenNoGht(root) ==
    IF endswith(root, "ve") THEN removesuffix(root, "ve") \o "f" \o "teen"
    ELSE Suffix_radd(root, "teen")

teen(root) ==
    IF endswith(root, "ve") THEN removesuffix(root, "ve") \o "f" \o "teen"
    ELSE IF endswith(root, "ght") THEN removesuffix(root, "t") \o "teen"
    ELSE Suffix_radd(root, "teen")

ty(root) ==
    IF endswith(root, "ve") THEN removesuffix(root, "ve") \o "f" \o "ty"
    ELSE IF endswith(root, "ght") THEN removesuffix(root, "t") \o "ty"
    ELSE Suffix_radd(root, "ty")

(***************************************************************************)
(* The digit tables, built once from the roots and the suffixes            *)
(***************************************************************************)
Forms(card, ord) == (Cardinal :> card) @@ (Ordinal :> ord)

_0_to_9 ==
    [d \in 0..9 |->
        CASE d = 0 -> Forms("zero", th("zero"))
          [] d = 1 -> Forms("one", st("fir"))
          [] d = 2 -> Forms("two", "second")
          [] d = 3 -> Forms("three", "third")
          [] d = 4 -> Forms("four", th("four"))
          [] d = 5 -> Forms("five", th("five"))
          [] d = 6 -> Forms("six", th("six"))
          [] d = 7 -> Forms("seven", th("seven"))
          [] d = 8 -> Forms("eight", th("eight"))
          [] d = 9 -> Forms("nine", th("nine"))]

_10_to_19 ==
    LET roots == Merge([d \in DOMAIN _0_to_9 |-> _0_to_9[d][Cardinal]],
                       (3 :> "thir"))
        teens == [d \in DOMAIN roots |-> teen(roots[d])]
        cards == Merge(teens, (0 :> "ten") @@ (1 :> "eleven") @@ (2 :> "twelve"))
    IN  [d \in DOMAIN cards |-> Forms(cards[d], th(cards[d]))]

tens ==
    LET roots == Merge([d \in DOMAIN _0_to_9 \ {0} |-> _0_to_9[d][Cardinal]],
                       (2 :> "twen") @@ (3 :> "thir") @@ (4 :> "for"))
    IN  Merge([d \in DOMAIN roots |-> ty(roots[d])],
              (1 :> _10_to_19[0][Cardinal]))

(***************************************************************************)
(* int2en(i, **cfg): the written-English representation of i.  The result  *)
(* is the returned string, the exception raised instead of returning, and  *)
(* the overflow diagnostics printed on the way, in order.                  *)
(***************************************************************************)
NoString == "<no string>"

Neg(i) == [neg |-> (~i.neg) /\ i.mag # Zero, mag |-> i.mag]

Returned(s, out) == [ret |-> s, exc |-> "", printed |-> out]

Raised(e, out) == [ret |-> NoString, exc |-> e, printed |-> out]

\* the item with the least key
MinItem(rv) ==
    LET k == CHOOSE p \in DOMAIN rv : \A o \in DOMAIN rv : Leq(p, o)
    IN  [power_of_ten |-> k, name |-> rv[k]]

\* max(scale.relevant_vocabulary(i).items()): the item with the greatest key
MaxItem(rv) ==
    LET k == CHOOSE p \in DOMAIN rv : \A o \in DOMAIN rv : Leq(o, p)
    IN  [power_of_ten |-> k, name |-> rv[k]]

\* an overflow test against the next group, not the threshold itself
IsOverflowBeyondThousand(q, power_of_ten) == Leq(Pow10(grouping), q)

\* line 157: the overflow test
IsOverflow(q, power_of_ten) == Leq(power_of_ten, q)

\* a join that tests do_say_and before the size of the remainder
Join100AndFirst(part1, part2, r, cfg) ==
    IF cfg.do_say_and THEN part1 \o " and " \o part2
    ELSE IF DOMAIN relevant_vocabulary(cfg.scale, r) # {}
    THEN part1 \o cfg.thousands_separator \o " " \o part2
    ELSE part1 \o " " \o part2

\* a join that uses two_digit_linker where the code writes a space
Join100Linker(part1, part2, r, cfg) ==
    IF DOMAIN relevant_vocabulary(cfg.scale, r) # {}
    THEN part1 \o cfg.thousands_separator \o " " \o part2
    ELSE IF cfg.do_say_and THEN part1 \o " and " \o part2
    ELSE part1 \o cfg.two_digit_linker \o part2

\* lines 164-168: the join of the head and the rendered remainder
Join100(part1, part2, r, cfg) ==
    IF DOMAIN relevant_vocabulary(cfg.scale, r) # {}
    THEN part1 \o cfg.thousands_separator \o " " \o part2
    ELSE IF cfg.do_say_and THEN part1 \o " and " \o part2
    ELSE part1 \o " " \o part2

\* lines 148 and 162: a final word takes the ordinal suffix in Ordinal mode
Final(part1, co) == IF co = Ordinal THEN th(part1) ELSE part1

\* q <= base
IsTwoDigitOrBase(q) == Leq(q, Digits(base))

\* line 145: q < base
IsTwoDigit(q) == Lt(q, Digits(base))

\* the quotient rendered in the caller's mode
QuotientModeOfCaller(co) == co

\* line 160: the quotient before a scale name is rendered with co=Cardinal
QuotientMode(co) == Cardinal

\* line 131
NegationWords == {"negative", "minus"}

\* a prefix that ignores negative_or_minus
NegativeAlwaysNegative(word, part) == "negative" \o " " \o part

\* line 132
Negative(word, part) == word \o " " \o part

RECURSIVE int2en(_, _)
int2en(i, cfg) ==
    LET co == cfg.cardinal_or_ordinal
        recurse(j, c) == int2en(j, [cfg EXCEPT !.cardinal_or_ordinal = c])
    IN
    IF i.neg THEN
        IF cfg.negative_or_minus \notin NegationWords
        THEN Raised("AssertionError", <<>>)
        ELSE LET sub == recurse(Neg(i), co)
             IN  IF sub.exc # "" THEN sub
                 ELSE Returned(Negative(cfg.negative_or_minus, sub.ret), sub.printed)
    ELSE
    LET d == DivMod(i.mag, Pow10(1))
    IN
    IF d.q = Zero THEN Returned(_0_to_9[Small(d.r)][co], <<>>)
    ELSE IF d.q = <<1>> THEN Returned(_10_to_19[Small(d.r)][co], <<>>)
    ELSE IF IsTwoDigit(d.q) THEN
        LET part1 == tens[Small(d.q)]
        IN  IF d.r = Zero THEN Returned(Final(part1, co), <<>>)
            ELSE LET sub == recurse([neg |-> FALSE, mag |-> d.r], co)
                 IN  IF sub.exc # "" THEN sub
                     ELSE Returned(part1 \o cfg.two_digit_linker \o sub.ret,
                                   sub.printed)
    ELSE
    LET item == MaxItem(relevant_vocabulary(cfg.scale, i.mag))
        e == DivMod(i.mag, item.power_of_ten)
        out == IF cfg.do_warn /\ IsOverflow(e.q, item.power_of_ten)
               THEN << [i |-> i.mag, q |-> e.q,
                        power_of_ten |-> item.power_of_ten, r |-> e.r] >>
               ELSE <<>>
        subq == recurse([neg |-> FALSE, mag |-> e.q], QuotientMode(co))
    IN
    IF subq.exc # "" THEN Raised(subq.exc, out \o subq.printed)
    ELSE
    LET part1 == subq.ret \o " " \o item.name
    IN  IF e.r = Zero THEN Returned(Final(part1, co), out \o subq.printed)
        ELSE LET subr == recurse([neg |-> FALSE, mag |-> e.r], co)
             IN  IF subr.exc # ""
                 THEN Raised(subr.exc, out \o subq.printed \o subr.printed)
                 ELSE Returned(Join100(part1, subr.ret, e.r, cfg),
                               out \o subq.printed \o subr.printed)

(***************************************************************************)
(* The inputs of a call: integers and keyword arguments.                   *)
(***************************************************************************)
MaxSmall == 999
MaxGroups == 3
MaxZeroGroups == 50
MaxRepeat == 28

Nat2Int(n) == [neg |-> FALSE, mag |-> Digits(n)]

\* a group of `grouping` digits, zero-padded
Group(g) == [j \in 1..grouping |-> (g \div (base ^ (grouping - j))) % base]

RECURSIVE FromGroups(_)
FromGroups(gs) ==
    IF Len(gs) = 0 THEN <<>> ELSE Group(Head(gs)) \o FromGroups(Tail(gs))

GroupInt(gs) == [neg |-> FALSE, mag |-> Norm(FromGroups(gs))]

GroupSet == {0, 1, 21, 500}
Heads == {1, 21, 118}
Tails == {0, 1, 500}

SmallInts == { Nat2Int(n) : n \in 0..MaxSmall }

GroupInts ==
    { GroupInt(gs) : gs \in UNION { [1..n -> GroupSet] : n \in 1..MaxGroups } }

\* a * 1000^(k+1) + b
BigInts ==
    { GroupInt(<<a>> \o [j \in 1..k |-> 0] \o <<b>>) :
        a \in Heads, k \in 0..MaxZeroGroups, b \in Tails }

\* g repeated in every group: no group is zero
RepeatInts ==
    { GroupInt([j \in 1..k |-> g]) : g \in {21, 118}, k \in 1..MaxRepeat }

Linkers == {"-", " "}
Separators == {",", ""}
Words == {"negative", "minus", "not"}

Configs(scales, linkers, separators, ands, warns, words, modes) ==
    [scale : scales, two_digit_linker : linkers,
     thousands_separator : separators, do_say_and : ands, do_warn : warns,
     negative_or_minus : words, cardinal_or_ordinal : modes]

\* the default keyword arguments of int2en
Default ==
    [scale |-> "ShortScale", two_digit_linker |-> "-",
     thousands_separator |-> ",", do_say_and |-> TRUE, do_warn |-> FALSE,
     negative_or_minus |-> "negative", cardinal_or_ordinal |-> Cardinal]

VARIABLES
    i,        \* the integer int2en is called on
    cfg,      \* its keyword arguments
    pc,       \* "ready", "running", "returned" or "raised"
    ret,      \* the string the call returned
    exc,      \* the exception the call raised
    printed,  \* the overflow diagnostics printed so far
    stack,    \* the activation records of int2en, the innermost last
    val,      \* the value the last completed recursive call returned
    steps,    \* the steps the call has taken
    probe     \* the last table lookup or max() evaluated: the table, the key
              \* (for max, the number of items) and the argument of the call

vars == <<i, cfg, pc, ret, exc, printed, stack, val, steps, probe>>

NoProbe == [table |-> "", key |-> 0, arg |-> Zero]

InitWith(ints, cfgs) ==
    /\ i \in ints
    /\ cfg \in cfgs
    /\ pc = "ready" /\ ret = NoString /\ exc = "" /\ printed = <<>>
    /\ stack = <<>> /\ val = NoString /\ steps = 0 /\ probe = NoProbe

\* integers to 10^9 of either sign, every keyword argument varied
Init ==
    InitWith(GroupInts \cup { Neg(x) : x \in GroupInts },
             Configs(Scales, Linkers, Separators, BOOLEAN, BOOLEAN, Words,
                     {Cardinal, Ordinal}))

\* every integer of 0..MaxSmall, the keyword arguments that shape a rendering
\* below one thousand varied around the defaults
InitTable ==
    InitWith(SmallInts,
             Configs({"ShortScale"}, Linkers, {","}, BOOLEAN, {FALSE},
                     {"negative"}, {Cardinal, Ordinal}))

\* integers up to and beyond the coverage of both vocabularies
InitBig ==
    InitWith(SmallInts \cup GroupInts \cup BigInts \cup RepeatInts,
             Configs(Scales, Linkers, {","}, {TRUE}, BOOLEAN, {"negative"},
                     {Cardinal, Ordinal}))

\* a whole call of int2en
Call == /\ pc = "ready"
        /\ LET res == int2en(i, cfg)
           IN  /\ ret' = res.ret
               /\ exc' = res.exc
               /\ printed' = res.printed
               /\ pc' = IF res.exc = "" THEN "returned" ELSE "raised"
        /\ UNCHANGED <<i, cfg, stack, val, steps, probe>>

Next == Call

Spec == Init /\ [][Next]_vars

SpecTable == InitTable /\ [][Next]_vars

SpecBig == InitBig /\ [][Next]_vars

(***************************************************************************)
(* The same call, one activation record at a time: a record is at line 130 *)
(* when it starts and at the line of the recursive call it waits for       *)
(* afterwards.  Lookups outside a table and max() of an empty dictionary   *)
(* raise, as they do in Python.                                            *)
(***************************************************************************)
MaxStepSmall == 130

Frame(j, co) ==
    [i |-> j, co |-> co, at |-> "130", q |-> Zero, r |-> Zero,
     power_of_ten |-> Zero, name |-> "", part1 |-> ""]

Top == stack[Len(stack)]

Pop == SubSeq(stack, 1, Len(stack) - 1)

\* return v from the innermost record
Return(v) ==
    /\ stack' = Pop
    /\ val' = v
    /\ pc' = IF Len(stack) = 1 THEN "returned" ELSE pc
    /\ ret' = IF Len(stack) = 1 THEN v ELSE ret
    /\ exc' = exc

\* an exception nobody catches unwinds every record
Raise(e) ==
    /\ stack' = <<>>
    /\ val' = NoString
    /\ pc' = "raised"
    /\ exc' = e
    /\ ret' = ret

\* recurse(j, co), the caller `waiting` for its value
Recurse(waiting, j, co) ==
    /\ stack' = [stack EXCEPT ![Len(stack)] = waiting] \o <<Frame(j, co)>>
    /\ val' = NoString
    /\ UNCHANGED <<pc, ret, exc>>

\* table[key][co], or KeyError
LookupForm(table, key, co) ==
    IF key \in DOMAIN table THEN Return(table[key][co]) ELSE Raise("KeyError")

InitStep ==
    InitWith({ Nat2Int(n) : n \in 0..MaxStepSmall } \cup GroupInts
                \cup { Neg(x) : x \in GroupInts }
                \cup { GroupInt(<<118>> \o [j \in 1..k |-> 0] \o <<21>>) :
                         k \in 0..MaxZeroGroups },
             Configs(Scales, {"-"}, {","}, {TRUE}, {TRUE}, {"minus", "not"},
                     {Cardinal, Ordinal}))

\* the caller calls int2en(i, **cfg)
Begin ==
    /\ pc = "ready"
    /\ pc' = "running"
    /\ stack' = <<Frame(i, cfg.cardinal_or_ordinal)>>
    /\ steps' = steps + 1
    /\ UNCHANGED <<i, cfg, ret, exc, printed, val, probe>>

\* lines 130-160: from the entry to the first recursive call or the return
Enter ==
    /\ pc = "running" /\ Top.at = "130"
    /\ LET f == Top
           d == DivMod(f.i.mag, Pow10(1))
           rv == relevant_vocabulary(cfg.scale, f.i.mag)
       IN
       IF f.i.neg THEN
           /\ IF cfg.negative_or_minus \notin NegationWords
              THEN Raise("AssertionError")
              ELSE Recurse([f EXCEPT !.at = "132"], Neg(f.i), f.co)
           /\ UNCHANGED <<printed, probe>>
       ELSE IF d.q = Zero THEN
           /\ LookupForm(_0_to_9, Small(d.r), f.co)
           /\ probe' = [table |-> "_0_to_9", key |-> Small(d.r), arg |-> f.i.mag]
           /\ UNCHANGED printed
       ELSE IF d.q = <<1>> THEN
           /\ LookupForm(_10_to_19, Small(d.r), f.co)
           /\ probe' = [table |-> "_10_to_19", key |-> Small(d.r), arg |-> f.i.mag]
           /\ UNCHANGED printed
       ELSE IF IsTwoDigit(d.q) THEN
           /\ probe' = [table |-> "tens", key |-> ToKey(d.q), arg |-> f.i.mag]
           /\ UNCHANGED printed
           /\ IF ToKey(d.q) \notin DOMAIN tens THEN Raise("KeyError")
              ELSE IF d.r = Zero THEN Return(Final(tens[ToKey(d.q)], f.co))
              ELSE Recurse([f EXCEPT !.at = "149", !.part1 = tens[ToKey(d.q)]],
                           [neg |-> FALSE, mag |-> d.r], f.co)
       ELSE
           /\ probe' = [table |-> "max", key |-> Cardinality(DOMAIN rv),
                       arg |-> f.i.mag]
           /\ IF DOMAIN rv = {}
              THEN Raise("ValueError") /\ UNCHANGED printed
              ELSE LET item == MaxItem(rv)
                       e == DivMod(f.i.mag, item.power_of_ten)
                   IN  /\ printed' =
                             IF cfg.do_warn /\ IsOverflow(e.q, item.power_of_ten)
                             THEN Append(printed,
                                         [i |-> f.i.mag, q |-> e.q,
                                          power_of_ten |-> item.power_of_ten,
                                          r |-> e.r])
                             ELSE printed
                       /\ Recurse([f EXCEPT !.at = "160", !.q = e.q, !.r = e.r,
                                             !.power_of_ten = item.power_of_ten,
                                             !.name = item.name],
                                   [neg |-> FALSE, mag |-> e.q],
                                   QuotientMode(f.co))
    /\ steps' = steps + 1
    /\ UNCHANGED <<i, cfg>>

Waiting(at) == pc = "running" /\ Top.at = at /\ val # NoString

\* line 132, recurse(-i) has returned
Resume132 ==
    /\ Waiting("132")
    /\ Return(Negative(cfg.negative_or_minus, val))
    /\ steps' = steps + 1
    /\ UNCHANGED <<i, cfg, printed, probe>>

\* line 150, recurse(r) has returned
Resume149 ==
    /\ Waiting("149")
    /\ Return(Top.part1 \o cfg.two_digit_linker \o val)
    /\ steps' = steps + 1
    /\ UNCHANGED <<i, cfg, printed, probe>>

\* lines 160-163, recurse(q, co=Cardinal) has returned
Resume160 ==
    /\ Waiting("160")
    /\ LET f == Top
           part1 == val \o " " \o f.name
       IN  IF f.r = Zero THEN Return(Final(part1, f.co))
           ELSE Recurse([f EXCEPT !.at = "163", !.part1 = part1],
                        [neg |-> FALSE, mag |-> f.r], f.co)
    /\ steps' = steps + 1
    /\ UNCHANGED <<i, cfg, printed, probe>>

\* lines 164-168, recurse(r) has returned
Resume163 ==
    /\ Waiting("163")
    /\ Return(Join100(Top.part1, val, Top.r, cfg))
    /\ steps' = steps + 1
    /\ UNCHANGED <<i, cfg, printed, probe>>

NextStep == Begin \/ Enter \/ Resume132 \/ Resume149 \/ Resume160 \/ Resume163

SpecStep == InitStep /\ [][NextStep]_vars

(***************************************************************************)
(* Properties                                                              *)
(***************************************************************************)
Hundred == Pow10(2)

\* the integer whose 3-digit groups are gs
G(gs) == Norm(FromGroups(gs))

\* C3: for every i > 0, every negation word in {negative, minus} and every
\* other configuration value, int2en(-i) is the negation word, one space, and
\* int2en(i) rendered with the identical configuration.
C3_NegationPrefix ==
    (pc # "ready" /\ i.neg /\ cfg.negative_or_minus \in {"negative", "minus"})
    => /\ pc = "returned"
       /\ ret = cfg.negative_or_minus \o " " \o int2en(Neg(i), cfg).ret

C3_Witness ==
    /\ pc = "returned" /\ i.neg /\ i.mag = G(<<1, 500, 21>>)
    /\ cfg.negative_or_minus = "minus" /\ cfg.cardinal_or_ordinal = Ordinal
    /\ cfg.scale = "LongScale"
    /\ ret = "minus one million, five hundred thousand and twenty-first"

\* C4: a negation word outside {negative, minus} is rejected whatever the
\* integer is, for i >= 0 as well as for i < 0, and no string is returned.
C4_RejectedForEveryInteger ==
    (pc # "ready" /\ cfg.negative_or_minus \notin {"negative", "minus"})
    => (pc = "raised" /\ ret = NoString)

\* C5: in the 100+ step, with r # 0, the head "<render(q)> <name>" and the
\* rendered remainder are joined by the thousands separator and a space when
\* r >= 100, otherwise by " and " when do_say_and, otherwise by one space.
C5_Joiner ==
    (pc = "returned" /\ ~i.neg /\ Leq(Hundred, i.mag)) =>
        LET item == MaxItem(relevant_vocabulary(cfg.scale, i.mag))
            d == DivMod(i.mag, item.power_of_ten)
            head == int2en([neg |-> FALSE, mag |-> d.q],
                           [cfg EXCEPT !.cardinal_or_ordinal = Cardinal]).ret
                    \o " " \o item.name
            tail == int2en([neg |-> FALSE, mag |-> d.r], cfg).ret
            joiner == IF Leq(Hundred, d.r) THEN cfg.thousands_separator \o " "
                      ELSE IF cfg.do_say_and THEN " and " ELSE " "
        IN  /\ d.r # Zero => ret = head \o joiner \o tail
            /\ (cfg = Default /\ i.mag = G(<<1, 500>>))
                   => ret = "one thousand, five hundred"
            /\ (cfg = Default /\ i.mag = G(<<1, 500, 0>>))
                   => ret = "one million, five hundred thousand"
            /\ (cfg = Default /\ i.mag = G(<<1, 1>>))
                   => ret = "one thousand and one"

C5_Witness ==
    /\ pc = "returned" /\ i.mag = G(<<1, 500, 0>>) /\ ~i.neg
    /\ cfg.do_say_and /\ cfg.thousands_separator = ","
    /\ cfg.scale = "ShortScale" /\ cfg.cardinal_or_ordinal = Cardinal
    /\ ret = "one million, five hundred thousand"

\* the string s with every "-" replaced by l
RECURSIVE ReplaceHyphen(_, _)
ReplaceHyphen(s, l) ==
    IF Len(s) = 0 THEN ""
    ELSE (IF Head(s) = "-" THEN l ELSE Head(s)) \o ReplaceHyphen(Tail(s), l)

CountHyphens(s) == Cardinality({ k \in 1..Len(s) : SubSeq(s, k, k) = "-" })

\* the number of 3-digit groups of a magnitude whose last two digits are a
\* value in 21..99 with a non-zero ones digit
TensOnes(mag) ==
    LET pad == [j \in 1..((3 - (Len(mag) % 3)) % 3) |-> 0] \o mag
    IN  Cardinality({ g \in 1..(Len(pad) \div 3) :
                        pad[3 * g - 1] >= 2 /\ pad[3 * g] # 0 })

\* C8: changing two_digit_linker changes the rendering only at the joins
\* between a tens word and a ones word, one per two-digit value 21..99 with a
\* non-zero ones digit in the decomposition: every other word and joiner is
\* the same, and without such a value the renderings are identical.
C8_LinkerOnlyTensOnes ==
    (pc = "returned" /\ cfg.two_digit_linker = "-") =>
        /\ CountHyphens(ret) = TensOnes(i.mag)
        /\ \A l \in Linkers :
              LET other == int2en(i, [cfg EXCEPT !.two_digit_linker = l]).ret
              IN  /\ other = ReplaceHyphen(ret, l)
                  /\ TensOnes(i.mag) = 0 => other = ret

C8_Witness ==
    /\ pc = "returned" /\ cfg.two_digit_linker = "-" /\ ~cfg.do_say_and
    /\ i.mag = G(<<21, 500, 21>>) /\ ~i.neg /\ cfg.scale = "ShortScale"
    /\ cfg.thousands_separator = "," /\ cfg.cardinal_or_ordinal = Cardinal
    /\ ret = "twenty-one million, five hundred thousand twenty-one"
    /\ int2en(i, [cfg EXCEPT !.two_digit_linker = " "]).ret
          = "twenty one million, five hundred thousand twenty one"

RECURSIVE ToNat(_)
ToNat(mag) ==
    IF Len(mag) = 0 THEN 0
    ELSE ToNat(SubSeq(mag, 1, Len(mag) - 1)) * 10 + mag[Len(mag)]

RefWords ==
    << "one", "two", "three", "four", "five", "six", "seven", "eight", "nine",
       "ten", "eleven", "twelve", "thirteen", "fourteen", "fifteen", "sixteen",
       "seventeen", "eighteen", "nineteen" >>

RefTens ==
    << "ten", "twenty", "thirty", "forty", "fifty", "sixty", "seventy",
       "eighty", "ninety" >>

Ref99(n) ==
    IF n = 0 THEN "zero"
    ELSE IF n < 20 THEN RefWords[n]
    ELSE RefTens[n \div 10]
         \o (IF n % 10 = 0 THEN "" ELSE "-" \o RefWords[n % 10])

Ref999(n) ==
    IF n < 100 THEN Ref99(n)
    ELSE RefWords[n \div 100] \o " hundred"
         \o (IF n % 100 = 0 THEN "" ELSE " and " \o Ref99(n % 100))

\* C1: for every i in 0..999, int2en(i) with the Short scale and the default
\* configuration is the reference English cardinal: the fixed word below 20,
\* the tens word and "-" and the ones word below 100, "<ones> hundred" and
\* " and " and the rest below 1000.
C1_ReferenceTable ==
    (pc # "ready" /\ cfg = Default /\ ~i.neg /\ Len(i.mag) <= 3) =>
        /\ pc = "returned"
        /\ ret = Ref999(ToNat(i.mag))
        /\ i.mag = <<0>> => ret = "zero"
        /\ i.mag = <<1, 1>> => ret = "eleven"
        /\ i.mag = <<2, 1>> => ret = "twenty-one"
        /\ i.mag = <<1, 0, 0>> => ret = "one hundred"
        /\ i.mag = <<1, 1, 8>> => ret = "one hundred and eighteen"

C1_Witness ==
    /\ pc = "returned" /\ cfg = Default /\ i = Nat2Int(118)
    /\ ret = "one hundred and eighteen"

\* the index of the last space or hyphen of s, 0 when it has none
LastBreak(s) ==
    LET at == { k \in 1..Len(s) : SubSeq(s, k, k) \in {" ", "-"} }
    IN  IF at = {} THEN 0 ELSE CHOOSE k \in at : \A m \in at : m <= k

\* the ordinal form of a cardinal word
OrdinalWord(w) ==
    CASE w = "one" -> "first"
      [] w = "two" -> "second"
      [] w = "three" -> "third"
      [] w = "five" -> "fifth"
      [] w = "eight" -> "eighth"
      [] w = "nine" -> "ninth"
      [] w = "twelve" -> "twelfth"
      [] OTHER ->
           IF SubSeq(w, Len(w), Len(w)) = "y"
           THEN SubSeq(w, 1, Len(w) - 1) \o "ieth"
           ELSE w \o "th"

OrdinalOfLast(s) ==
    LET p == LastBreak(s)
    IN  SubSeq(s, 1, p) \o OrdinalWord(SubSeq(s, p + 1, Len(s)))

\* C2: in Ordinal mode the rendering of i >= 0 is the Cardinal rendering of i
\* with only its last word replaced by that word's ordinal form, every earlier
\* word and joiner unchanged.
C2_OrdinalLastWord ==
    (pc # "ready" /\ ~i.neg /\ cfg.cardinal_or_ordinal = Ordinal) =>
        /\ pc = "returned"
        /\ ret = OrdinalOfLast(
                    int2en(i, [cfg EXCEPT !.cardinal_or_ordinal = Cardinal]).ret)
        /\ i.mag = <<1, 0, 1>> => ret = "one hundred and first"
        /\ i.mag = <<2, 1>> => ret = "twenty" \o cfg.two_digit_linker \o "first"
        /\ i.mag = <<1, 0, 0>> => ret = "one hundredth"
        /\ i.mag = <<2, 0>> => ret = "twentieth"
        /\ i.mag = <<1, 2>> => ret = "twelfth"

C2_Witness ==
    /\ pc = "returned" /\ cfg.cardinal_or_ordinal = Ordinal
    /\ cfg.scale = "ShortScale" /\ i.mag = G(<<118, 0, 1>>) /\ ~i.neg
    /\ ret = "one hundred and eighteen million and first"

\* the number of places where w occurs in s
Occurrences(s, w) ==
    Cardinality({ k \in 1..(Len(s) - Len(w) + 1) :
                    SubSeq(s, k, k + Len(w) - 1) = w })

\* the named groups of a rendering: one per scale name, and the units group
NamedGroups(s) == Occurrences(s, "thousand") + Occurrences(s, "illion") + 1

\* ceil(digit_count / 3)
DigitGroups(mag) == (Len(mag) + 2) \div 3

\* the 3-digit groups above the units group that are not zero
NonZeroUpperGroups(mag) ==
    LET pad == [j \in 1..((3 - (Len(mag) % 3)) % 3) |-> 0] \o mag
    IN  { g \in 1..((Len(pad) \div 3) - 1) :
            pad[3 * g - 2] # 0 \/ pad[3 * g - 1] # 0 \/ pad[3 * g] # 0 }

\* 1000 times the largest threshold of the Short scale, 10^39
ShortCoverage == Pow10(42)

\* C10 as stated: under the Short scale, for every i >= 1 within vocabulary
\* coverage, the count of named groups of the rendering is
\* ceil(digit_count(i) / 3).
C10_GroupsMatchDigitCount ==
    (pc = "returned" /\ cfg.scale = "ShortScale" /\ ~i.neg /\ i.mag # Zero
       /\ Lt(i.mag, ShortCoverage))
    => NamedGroups(ret) = DigitGroups(i.mag)

\* C10 amended: the count of named groups is one more than the number of
\* non-zero 3-digit groups above the units group, which is
\* ceil(digit_count(i) / 3) when none of those groups is zero.
C10_GroupsMatchNonZeroGroups ==
    (pc = "returned" /\ cfg.scale = "ShortScale" /\ ~i.neg /\ i.mag # Zero
       /\ Lt(i.mag, ShortCoverage))
    => /\ NamedGroups(ret) = Cardinality(NonZeroUpperGroups(i.mag)) + 1
       /\ Cardinality(NonZeroUpperGroups(i.mag)) = DigitGroups(i.mag) - 1
             => NamedGroups(ret) = DigitGroups(i.mag)

C10_Witness ==
    /\ pc = "returned" /\ cfg.scale = "ShortScale" /\ ~i.neg
    /\ cfg.cardinal_or_ordinal = Cardinal
    /\ i.mag = G(<<21, 21, 21>>)
    /\ ret = "twenty-one million, twenty-one thousand and twenty-one"
    /\ NamedGroups(ret) = 3

\* C6 as stated: with do_warn the diagnostic is printed exactly for the
\* inputs beyond vocabulary coverage (Short: i >= 10^42), the string is
\* returned in both cases, and without do_warn nothing is printed.
C6_WarnBeyondCoverage ==
    (pc # "ready" /\ cfg.scale = "ShortScale" /\ ~i.neg) =>
        /\ pc = "returned" /\ ret # NoString
        /\ (printed # <<>>) <=> (cfg.do_warn /\ Leq(ShortCoverage, i.mag))

\* the square of the largest threshold: 10^39 (Short), 10^75 (Long)
TopSquared(scale) == IF scale = "ShortScale" THEN Pow10(78) ELSE Pow10(150)

\* C6 amended: with do_warn the diagnostic is printed exactly when the
\* quotient at the top magnitude is not below that magnitude's own
\* threshold, i.e. for i >= 10^78 (Short) or 10^150 (Long); the string is
\* returned in both cases, and without do_warn nothing is printed.
C6_WarnQuotientAtThreshold ==
    (pc # "ready" /\ ~i.neg) =>
        /\ pc = "returned" /\ ret # NoString
        /\ (printed # <<>>) <=> (cfg.do_warn /\ Leq(TopSquared(cfg.scale), i.mag))
        /\ \A k \in 1..Len(printed) :
              /\ Leq(printed[k].power_of_ten, printed[k].q)
              /\ printed[k].power_of_ten
                    = (IF cfg.scale = "ShortScale" THEN Pow10(39) ELSE Pow10(75))

C6_Witness ==
    /\ pc = "returned" /\ cfg.do_warn /\ cfg.scale = "ShortScale" /\ ~i.neg
    /\ cfg.cardinal_or_ordinal = Cardinal
    /\ i.mag = Pow10(78)
    /\ printed = << [i |-> Pow10(78), q |-> Pow10(39),
                     power_of_ten |-> Pow10(39), r |-> Zero] >>
    /\ ret = "one duodecillion duodecillion"

RefPrefixes ==
    << "m", "b", "tr", "quadr", "quint", "sext", "sept", "oct", "non", "dec",
       "undec", "duodec" >>

\* the thresholds of a vocabulary that carry the name w
Named(v, w) == { k \in DOMAIN v : v[k] = w }

\* C7: each vocabulary is a one-to-one mapping from thresholds to names with
\* 100 -> hundred, 1000 -> thousand and, for n in 1..12, <prefix>illion at
\* 10^(3n+3) (Short) or 10^(6n) (Long) and, Long only, <prefix>illiard at
\* 10^(6n+3): 14 entries for Short, 26 for Long, thresholds increasing in n.
C7_Vocabulary ==
    LET v == vocabulary(cfg.scale)
        short == vocabulary("ShortScale")
        long == vocabulary("LongScale")
        ill(n) == IF cfg.scale = "ShortScale" THEN 3 * n + 3 ELSE 6 * n
    IN  /\ Pow10(2) \in DOMAIN v /\ v[Pow10(2)] = "hundred"
        /\ Pow10(3) \in DOMAIN v /\ v[Pow10(3)] = "thousand"
        /\ \A n \in 1..12 :
              /\ Pow10(ill(n)) \in DOMAIN v
              /\ v[Pow10(ill(n))] = RefPrefixes[n] \o "illion"
              /\ cfg.scale = "LongScale" =>
                    /\ Pow10(6 * n + 3) \in DOMAIN v
                    /\ v[Pow10(6 * n + 3)] = RefPrefixes[n] \o "illiard"
              /\ n > 1 => Lt(Pow10(ill(n - 1)), Pow10(ill(n)))
        /\ \A k1, k2 \in DOMAIN v : v[k1] = v[k2] => k1 = k2
        /\ Cardinality(DOMAIN v) = (IF cfg.scale = "ShortScale" THEN 14 ELSE 26)
        /\ Named(short, "million") = {Pow10(6)}
        /\ Named(short, "billion") = {Pow10(9)}
        /\ Named(short, "trillion") = {Pow10(12)}
        /\ Named(long, "million") = {Pow10(6)}
        /\ Named(long, "billion") = {Pow10(12)}
        /\ Named(long, "milliard") = Named(short, "billion")

C7_Witness ==
    /\ pc = "returned" /\ cfg.scale = "LongScale" /\ i.mag = Pow10(9)
    /\ cfg.cardinal_or_ordinal = Cardinal
    /\ ret = "one milliard"

\* every table lookup uses a key of its table, max() is evaluated only for
\* i >= 100 and never over an empty dictionary, nothing but the assertion on
\* the negation word raises, and a call that ended has returned a string
C9_Lookups ==
    /\ probe.table = "_0_to_9" => probe.key \in 0..9
    /\ probe.table = "_10_to_19" => probe.key \in 0..9
    /\ probe.table = "tens" => probe.key \in 2..9
    /\ probe.table = "max" => (probe.key > 0 /\ Leq(Hundred, probe.arg))
    /\ exc \notin {"KeyError", "ValueError"}
    /\ pc = "raised" => (i.neg /\ cfg.negative_or_minus \notin {"negative", "minus"})
    /\ pc = "returned" =>
          (ret # NoString /\ ret = int2en(i, cfg).ret
             /\ printed = int2en(i, cfg).printed)

\* a running call can take its next step, and has taken at most
\* 2 * digit_count(i) + 2 steps
C9_Progress ==
    /\ pc = "running" =>
          /\ stack # <<>>
          /\ \/ Top.at = "130"
             \/ Top.at \in {"132", "149", "160", "163"} /\ val # NoString
    /\ pc \in {"returned", "raised"} => stack = <<>>
    /\ steps <= 2 * Len(i.mag) + 2

\* C9 as stated: int2en is total and terminating when the negation word is
\* valid: every recursive call is on a non-negative integer strictly smaller
\* in absolute value than the caller's argument, every lookup in the ones,
\* teens and tens tables uses a key of 0..9, 0..9 and 2..9, and max() is
\* evaluated only for i >= 100, never over an empty dictionary.
C9_CalleeStrictlySmaller ==
    /\ \A k \in 2..Len(stack) :
          /\ ~stack[k].i.neg
          /\ Lt(stack[k].i.mag, stack[k - 1].i.mag)
    /\ C9_Lookups
    /\ C9_Progress

\* C9 amended: as stated, but a recursive call is on a non-negative integer
\* that is strictly smaller than the caller's argument when that argument is
\* non-negative, and is |i|, of the same absolute value, when it is negative.
C9_TotalAndTerminating ==
    /\ \A k \in 2..Len(stack) :
          /\ ~stack[k].i.neg
          /\ IF stack[k - 1].i.neg
             THEN stack[k].i.mag = stack[k - 1].i.mag
             ELSE Lt(stack[k].i.mag, stack[k - 1].i.mag)
    /\ C9_Lookups
    /\ C9_Progress

C9_Witness ==
    /\ pc = "running" /\ Len(stack) >= 4 /\ Top.at = "130"
    /\ i.neg /\ cfg.negative_or_minus = "minus"
    /\ probe.table = "max" /\ steps >= 6

====
